---- MODULE Spec2Model ----
(***************************************************************************)
(* A model of the finter-skills command line scripts: the strategy         *)
(* validators (path independence, trading days, weight sum), the alpha and *)
(* portfolio backtest runners, finalize_fix (decision, main, its own path  *)
(* check), the portfolio-agent scripts, the info generators and the        *)
(* crypto_bitcoin template.                                                *)
(*                                                                         *)
(* Every script is a single-threaded run.  Each has one variable holding   *)
(* its inputs (what the user's strategy and the platform return), its      *)
(* position in the script and its outputs; a specification per script      *)
(* draws the inputs in its initial states and steps through the script.    *)
(*                                                                         *)
(* Numbers.  Position cells are <<v>> (a number) or <<>> (NaN, a missing   *)
(* value).  Floating point is modelled by exact integer arithmetic in a    *)
(* unit stated with each check.                                            *)
(***************************************************************************)
EXTENDS Integers, Sequences, FiniteSets, TLC

VARIABLES pi, td, ws, vm, pb, ab, fx, fm, cli, ti, cb

vars == <<pi, td, ws, vm, pb, ab, fx, fm, cli, ti, cb>>

(***************************************************************************)
(* Cells, NaN-skipping reductions and small helpers                        *)
(***************************************************************************)
NaN == <<>>

IsNaN(c) == c = NaN

Num(v) == <<v>>

Abs(x) == IF x < 0 THEN -x ELSE x

SetMin(S) == CHOOSE x \in S : \A y \in S : x <= y

SetMax(S) == CHOOSE x \in S : \A y \in S : x >= y

RECURSIVE SortedSeq(_)
\* The labels of an index in ascending order (a pandas Index built from sorted dates).
SortedSeq(S) ==
    IF S = {} THEN <<>>
    ELSE LET m == SetMin(S) IN <<m>> \o SortedSeq(S \ {m})

SeqToSet(s) == {s[i] : i \in 1..Len(s)}

RECURSIVE SumSeq(_)
SumSeq(s) == IF s = <<>> THEN 0 ELSE s[1] + SumSeq(Tail(s))

Idle == [pc |-> "idle"]

(***************************************************************************)
(* CHECK 1: path independence (alpha_validator / portfolio_validator)      *)
(*                                                                         *)
(* Dates are 0..OverlapDays+1: 0 is a date of 2020, 1..OverlapDays are the *)
(* dates of the overlap 20210101-20211231, OverlapDays+1 is a date of      *)
(* 2022.  Cell values are in units of 5e-7, so 1e-6 is PathTol = 2.        *)
(***************************************************************************)
OverlapDays == 6

MaxVal == 4

PathTol == 2

TrimThreshold == 5

TrimRows == 3

overlap_start == 1

overlap_end == OverlapDays

Cols == {"A", "B"}

Range1Dates == 0..OverlapDays

Range2Dates == 1..(OverlapDays + 1)

\* A position table: its index (dates), its columns and its cells, all 1
\* except the cell k (when the table has it), which holds v.
Table(index, columns, k, v) ==
    [index |-> index, columns |-> columns,
     val |-> [c \in index \X columns |-> IF c = k THEN v ELSE Num(1)]]

\* pos.loc[overlap_start:overlap_end]: the rows whose label lies in the slice.
LocSlice(pos, lo, hi) ==
    [index |-> {d \in pos.index : lo <= d /\ d <= hi},
     columns |-> pos.columns,
     val |-> [k \in {d \in pos.index : lo <= d /\ d <= hi} \X pos.columns |-> pos.val[k]]]

\* Mutant: the boundary exclusion drops one row more.
TrimBoundaryWide(common_idx) ==
    IF Len(common_idx) > TrimThreshold
    THEN SubSeq(common_idx, 1, Len(common_idx) - (TrimRows + 1))
    ELSE common_idx

\* if len(common_idx) > 5: common_idx = common_idx[:-3]
TrimBoundary(common_idx) ==
    IF Len(common_idx) > TrimThreshold
    THEN SubSeq(common_idx, 1, Len(common_idx) - TrimRows)
    ELSE common_idx

\* (pos1_aligned - pos2_aligned).abs(): NaN where either cell is NaN.
AbsDiff(a, b) == IF IsNaN(a) \/ IsNaN(b) THEN NaN ELSE Num(Abs(a[1] - b[1]))

\* diff.max().max(): the largest non-NaN cell, NaN when there is none.
NanMax(cells) ==
    LET nums == {c[1] : c \in {x \in cells : ~IsNaN(x)}}
    IN IF nums = {} THEN NaN ELSE Num(SetMax(nums))

\* passed = max_diff < 1e-6  (a NaN max_diff compares False)
PathPassed(max_diff) == ~IsNaN(max_diff) /\ max_diff[1] < PathTol

check_path_independence(pos1, pos2) ==
    LET pos1_overlap == LocSlice(pos1, overlap_start, overlap_end)
        pos2_overlap == LocSlice(pos2, overlap_start, overlap_end)
        common_cols == pos1_overlap.columns \cap pos2_overlap.columns
        common_idx == TrimBoundary(SortedSeq(pos1_overlap.index \cap pos2_overlap.index))
        diff == {AbsDiff(pos1_overlap.val[<<d, c>>], pos2_overlap.val[<<d, c>>]) :
                    <<d, c>> \in SeqToSet(common_idx) \X common_cols}
        max_diff == NanMax(diff)
    IN IF Len(common_idx) = 0
       THEN [passed |-> FALSE, msg |-> "No overlapping dates",
             overlap_days |-> 0, max_diff |-> NaN]
       ELSE [passed |-> PathPassed(max_diff), msg |-> "max_diff",
             overlap_days |-> Len(common_idx), max_diff |-> max_diff]

\* What AlphaClass().get returns for the two windows: an index that misses at
\* most one date of the window (or holds only a date outside the overlap),
\* one or two columns, and values that differ from the other window's in at
\* most one cell.
AtMostOne(S) == Cardinality(S) <= 1

IndexChoices(dates, outside) ==
    {dates \ m : m \in {x \in SUBSET dates : AtMostOne(x)}} \cup {{outside}}

PiInputs ==
    {[pos1 |-> Table(i1, c1, k, v),
      pos2 |-> Table(i2, c2, k, Num(1))] :
        i1 \in IndexChoices(Range1Dates, 0),
        i2 \in IndexChoices(Range2Dates, OverlapDays + 1),
        c1 \in {{"A"}, {"A", "B"}},
        c2 \in {{"B"}, {"A", "B"}},
        k \in Range1Dates \X Cols,
        v \in {Num(x) : x \in 0..MaxVal} \cup {NaN}}

PiInit ==
    \E inp \in PiInputs :
        pi = [pc |-> "start", pos1 |-> inp.pos1, pos2 |-> inp.pos2]

\* One run of check_path_independence.
CheckPathIndependence ==
    /\ pi.pc = "start"
    /\ pi' = [pc |-> "done", pos1 |-> pi.pos1, pos2 |-> pi.pos2,
              res |-> check_path_independence(pi.pos1, pi.pos2)]
    /\ UNCHANGED <<td, ws, vm, pb, ab, fx, fm, cli, ti, cb>>

InitPath ==
    /\ PiInit
    /\ td = Idle /\ ws = Idle /\ vm = Idle /\ pb = Idle /\ ab = Idle /\ fx = Idle
    /\ fm = Idle /\ cli = Idle /\ ti = Idle /\ cb = Idle

NextPath == CheckPathIndependence

SpecPath == InitPath /\ [][NextPath]_vars

(***************************************************************************)
(* C1 (as stated): check_path_independence passes only if the two tables   *)
(* agree within 1e-6 on every date of the overlap present in both and on   *)
(* every column present in both (cells missing in either table aside).     *)
(* The code drops the last three of more than five common dates.           *)
(***************************************************************************)
CommonOverlapDates ==
    {d \in pi.pos1.index \cap pi.pos2.index : overlap_start <= d /\ d <= overlap_end}

CommonColumns == pi.pos1.columns \cap pi.pos2.columns

\* The common dates that are not among the last three of more than five.
ComparedDates ==
    {d \in CommonOverlapDates :
        \/ Cardinality(CommonOverlapDates) <= TrimThreshold
        \/ Cardinality({e \in CommonOverlapDates : e > d}) >= TrimRows}

\* Two cells agree within the tolerance; a cell missing in either table is
\* not held against the tables.
AgreeWithinTol(a, b) == IsNaN(a) \/ IsNaN(b) \/ Abs(a[1] - b[1]) <= PathTol

MaxDay == 4

MaxIdx == 2

Days == 1..MaxDay

Digits == <<"0", "1", "2", "3", "4", "5", "6", "7", "8", "9">>

DigitVal(ch) == CHOOSE v \in 0..9 : Digits[v + 1] = ch

Pad2(n) == <<Digits[(n \div 10) + 1], Digits[(n % 10) + 1]>>

\* d.strftime('%Y%m%d') of a date of January 2023
Strftime(day) == <<"2", "0", "2", "3", "0", "1">> \o Pad2(day)

\* str(d) of a date label: 'YYYY-MM-DD'
IsoStr(day) == <<"2", "0", "2", "3", "-", "0", "1", "-">> \o Pad2(day)

RECURSIVE StrOfNat(_)
\* str(d) of a non-negative int label
StrOfNat(n) ==
    IF n < 10 THEN <<Digits[n + 1]>>
    ELSE StrOfNat(n \div 10) \o <<Digits[(n % 10) + 1]>>

RECURSIVE ParseInt(_)
\* int(s) of a string of decimal digits
ParseInt(s) ==
    IF Len(s) = 0 THEN 0
    ELSE 10 * ParseInt(SubSeq(s, 1, Len(s) - 1)) + DigitVal(s[Len(s)])

\* s.replace('-', '')[:8]
StripDashes8(s) ==
    LET t == SelectSeq(s, LAMBDA ch : ch # "-")
    IN SubSeq(t, 1, IF Len(t) < 8 THEN Len(t) ELSE 8)

\* The labels of a position index.  kind "datetime": a DatetimeIndex of
\* <<day, bar>> timestamps (has strftime); "str": date strings; "int":
\* YYYYMMDD integers.
YmdInt(day) == 20230100 + day

IndexLabels(kind) ==
    CASE kind = "datetime" -> Days \X {0, 1}
      [] kind = "str" -> {IsoStr(d) : d \in Days}
      [] kind = "int" -> {YmdInt(d) : d \in Days}

\* set(int(d.strftime('%Y%m%d')) for d in cf.trading_days)
NormaliseTradingDays(calendar) == {ParseInt(Strftime(d)) : d \in calendar}

\* Mutant: positions dates that are missing from the calendar are not counted,
\* calendar days missing from the positions are.
ExtraDaysSwapped(pos_dates, trading_days) == trading_days \ pos_dates

\* extra_days = pos_dates - trading_days
ExtraDays(pos_dates, trading_days) == pos_dates \ trading_days

\* The normalised position index: strftime for a DatetimeIndex, str() otherwise.
NormalisePosIndex(kind, index) ==
    CASE kind = "datetime" -> {ParseInt(Strftime(index[i][1])) : i \in 1..Len(index)}
      [] kind = "str" -> {ParseInt(StripDashes8(index[i])) : i \in 1..Len(index)}
      [] kind = "int" -> {ParseInt(StripDashes8(StrOfNat(index[i]))) : i \in 1..Len(index)}

check_trading_days(universe, calendar, kind, index) ==
    IF universe = "raw"
    THEN [passed |-> TRUE, msg |-> "skipped (crypto)",
          trading_days |-> 0, position_days |-> 0, invalid_days |-> 0]
    ELSE LET trading_days == NormaliseTradingDays(calendar)
             pos_dates == NormalisePosIndex(kind, index)
             extra_days == ExtraDays(pos_dates, trading_days)
         IN [passed |-> Cardinality(extra_days) = 0, msg |-> "invalid",
             trading_days |-> Cardinality(trading_days),
             position_days |-> Cardinality(pos_dates),
             invalid_days |-> Cardinality(extra_days)]

SeqsUpTo(S, n) == UNION {[1..k -> S] : k \in 0..n}

TdInit ==
    \E universe \in {"kr_stock", "raw"}, calendar \in SUBSET Days,
       kind \in {"datetime", "str", "int"} :
        \E index \in SeqsUpTo(IndexLabels(kind), MaxIdx) :
            td = [pc |-> "start", universe |-> universe, calendar |-> calendar,
                  kind |-> kind, index |-> index]

\* One run of check_trading_days.
CheckTradingDays ==
    /\ td.pc = "start"
    /\ td' = [td EXCEPT !.pc = "done"] @@
             [res |-> check_trading_days(td.universe, td.calendar, td.kind, td.index)]
    /\ UNCHANGED <<pi, ws, vm, pb, ab, fx, fm, cli, ti, cb>>

InitTradingDays ==
    /\ TdInit
    /\ pi = Idle /\ ws = Idle /\ vm = Idle /\ pb = Idle /\ ab = Idle /\ fx = Idle
    /\ fm = Idle /\ cli = Idle /\ ti = Idle /\ cb = Idle

NextTradingDays == CheckTradingDays

SpecTradingDays == InitTradingDays /\ [][NextTradingDays]_vars

\* The day a label of the position index falls on.
LabelDay(kind, label) ==
    CASE kind = "datetime" -> label[1]
      [] kind = "str" -> CHOOSE d \in Days : IsoStr(d) = label
      [] kind = "int" -> label - 20230100

PositionDays == {LabelDay(td.kind, td.index[i]) : i \in 1..Len(td.index)}

(***************************************************************************)
(* C2: for a universe other than 'raw', check_trading_days passes exactly  *)
(* when every label of the position index falls on a day of the universe's *)
(* trading-day calendar, and the invalid count it reports is the number of *)
(* position days outside the calendar.                                     *)
(***************************************************************************)
C2_TradingDaysExact ==
    (td.pc = "done" /\ td.universe # "raw") =>
        /\ td.res.passed <=>
              \A i \in 1..Len(td.index) : LabelDay(td.kind, td.index[i]) \in td.calendar
        /\ td.res.invalid_days = Cardinality(PositionDays \ td.calendar)

\* A failing run over string labels: one position day in the calendar, one not.
C2_Witness ==
    /\ td.pc = "done"
    /\ td.universe # "raw"
    /\ td.kind = "str"
    /\ ~td.res.passed
    /\ td.res.invalid_days = 1
    /\ Cardinality(PositionDays) = 2
    /\ td.calendar # {}

(***************************************************************************)
(* CHECK 3: weight sum (portfolio_validator)                               *)
(*                                                                         *)
(* A table is a sequence of rows, a row a sequence of cells.  Values are   *)
(* in units of 0.01: 1.0 is WeightOne = 100, the tolerance 0.05 is         *)
(* WeightTol = 5, the format threshold 1e6 is PositionFormatMin.           *)
(***************************************************************************)
MaxRows == 3

WeightOne == 100

WeightTol == 5

PositionFormatMin == 100000000

BigVal == PositionFormatMin + 20000000

WsCells == {NaN, Num(0), Num(47), Num(53), Num(BigVal)}

WsRows == [1..2 -> WsCells]

\* positions.sum(axis=1) of one row: NaN cells are skipped, an all-NaN row sums to 0.
RowSum(row) == SumSeq([i \in 1..Len(SelectSeq(row, LAMBDA c : ~IsNaN(c))) |->
                          SelectSeq(row, LAMBDA c : ~IsNaN(c))[i][1]])

RowSums(positions) == [i \in 1..Len(positions) |-> RowSum(positions[i])]

\* mean_sum > 1e6 (the mean of no rows is NaN and compares False)
IsPositionFormat(row_sums) ==
    Len(row_sums) > 0 /\ SumSeq(row_sums) > PositionFormatMin * Len(row_sums)

\* weights = positions.div(row_sums, axis=0); weights.sum(axis=1): the cells of
\* a row divided by their sum add up to 1.0; a row whose sum is 0 holds only
\* 0/0 = NaN and sums to 0.
NormalisedRowSum(row) == IF RowSum(row) = 0 THEN 0 ELSE WeightOne

\* abs(mean_sum - 1.0) < tolerance, times n (the mean of no rows is NaN)
MeanWithinTol(weight_sums) ==
    LET n == Len(weight_sums)
    IN n > 0 /\ Abs(SumSeq(weight_sums) - WeightOne * n) < WeightTol * n

\* std_sum < tolerance: the sample standard deviation (ddof = 1), NaN for fewer
\* than two rows.  sum((x - mean)^2) / (n - 1) < tol^2, times n^2.
StdBelowTol(weight_sums) ==
    LET n == Len(weight_sums)
        total == SumSeq(weight_sums)
    IN n > 1 /\ SumSeq([i \in 1..n |-> (n * weight_sums[i] - total) * (n * weight_sums[i] - total)])
                  < WeightTol * WeightTol * n * n * (n - 1)

\* Mutant: only the mean is checked.
WeightSumPassedMeanOnly(weight_sums) == MeanWithinTol(weight_sums)

\* passed = (abs(mean_sum - 1.0) < tolerance) and (std_sum < tolerance)
WeightSumPassed(weight_sums) == MeanWithinTol(weight_sums) /\ StdBelowTol(weight_sums)

check_weight_sum(positions) ==
    LET row_sums == RowSums(positions)
        position_format == IsPositionFormat(row_sums)
        weight_sums == IF position_format
                       THEN [i \in 1..Len(positions) |-> NormalisedRowSum(positions[i])]
                       ELSE row_sums
    IN [passed |-> WeightSumPassed(weight_sums),
        format |-> IF position_format THEN "position" ELSE "weight",
        weight_sums |-> weight_sums,
        min_weight_sum |-> IF Len(weight_sums) = 0 THEN NaN
                           ELSE Num(SetMin(SeqToSet(weight_sums))),
        max_weight_sum |-> IF Len(weight_sums) = 0 THEN NaN
                           ELSE Num(SetMax(SeqToSet(weight_sums)))]

WsInit ==
    \E positions \in SeqsUpTo(WsRows, MaxRows) :
        ws = [pc |-> "start", positions |-> positions]

\* One run of check_weight_sum.
CheckWeightSum ==
    /\ ws.pc = "start"
    /\ ws' = [pc |-> "done", positions |-> ws.positions,
              res |-> check_weight_sum(ws.positions)]
    /\ UNCHANGED <<pi, td, vm, pb, ab, fx, fm, cli, ti, cb>>

InitWeightSum ==
    /\ WsInit
    /\ pi = Idle /\ td = Idle /\ vm = Idle /\ pb = Idle /\ ab = Idle /\ fx = Idle
    /\ fm = Idle /\ cli = Idle /\ ti = Idle /\ cb = Idle

NextWeightSum == CheckWeightSum

SpecWeightSum == InitWeightSum /\ [][NextWeightSum]_vars

\* The per-row sums of the table, NaN cells counting as nothing.
RowTotal(row) ==
    (IF IsNaN(row[1]) THEN 0 ELSE row[1][1]) + (IF IsNaN(row[2]) THEN 0 ELSE row[2][1])

RowTotals == [i \in 1..Len(ws.positions) |-> RowTotal(ws.positions[i])]

TotalOfRows == SumSeq(RowTotals)

SumOfSquares == SumSeq([i \in 1..Len(RowTotals) |-> RowTotals[i] * RowTotals[i]])

NRows == Len(ws.positions)

\* mean row sum not above 1e6
WeightFormatTable == NRows = 0 \/ TotalOfRows <= PositionFormatMin * NRows

\* |mean - 1.0| < 0.05
MeanNearOne ==
    NRows > 0 /\ (WeightOne - WeightTol) * NRows < TotalOfRows
              /\ TotalOfRows < (WeightOne + WeightTol) * NRows

\* sample variance (n * sum(x^2) - sum(x)^2) / (n * (n - 1)) < 0.05^2
StdBelowFivePercent ==
    NRows > 1 /\ NRows * SumOfSquares - TotalOfRows * TotalOfRows
                    < WeightTol * WeightTol * NRows * (NRows - 1)

(***************************************************************************)
(* C3: for a weight-format table (mean row sum not above 1e6),             *)
(* check_weight_sum passes exactly when the mean of the per-row sums       *)
(* differs from 1.0 by less than 0.05 and their (sample) standard          *)
(* deviation is below 0.05.                                                *)
(***************************************************************************)
C3_WeightSumMeanStd ==
    (ws.pc = "done" /\ WeightFormatTable) =>
        (ws.res.passed <=> (MeanNearOne /\ StdBelowFivePercent))

\* A weight-format table whose mean is near 1.0 and that fails on its deviation.
C3_Witness ==
    /\ ws.pc = "done"
    /\ WeightFormatTable
    /\ ws.res.format = "weight"
    /\ MeanNearOne
    /\ ~ws.res.passed

(***************************************************************************)
(* C4: check_weight_sum passes only if the weights sum to approximately    *)
(* 1.0 in every row: whenever it passes, each row's weight sum lies within *)
(* the 0.05 tolerance of 1.0.  The code tests the mean and the deviation   *)
(* of the row sums, not each row.                                          *)
(***************************************************************************)
C4_PassImpliesEveryRowNearOne ==
    (ws.pc = "done" /\ ws.res.passed) =>
        \A i \in 1..Len(ws.res.weight_sums) :
            Abs(ws.res.weight_sums[i] - WeightOne) <= WeightTol

(***************************************************************************)
(* The validator main (alpha_validator: 2 checks, portfolio_validator: 3)  *)
(*                                                                         *)
(* load is what loading the strategy file does; outcomes[i] is what check  *)
(* i does: it returns passed=True ("pass"), returns passed=False ("fail")  *)
(* or raises an exception ("raise").                                       *)
(***************************************************************************)
ValidatorChecks(script) ==
    IF script = "alpha_validator"
    THEN <<"path_independence", "trading_days">>
    ELSE <<"path_independence", "trading_days", "weight_sum">>

CheckOutcomes == {"pass", "fail", "raise"}

\* results.append(passed) in the try, results.append(False) in the except
RecordedResult(outcome) == outcome = "pass"

\* Mutant: any(results) decides the status.
ExitStatusAny(results) == IF \E i \in 1..Len(results) : results[i] THEN 0 ELSE 1

\* sys.exit(0 if all(results) else 1)
ExitStatus(results) == IF \A i \in 1..Len(results) : results[i] THEN 0 ELSE 1

VmInit ==
    \E script \in {"alpha_validator", "portfolio_validator"}, load \in {"ok", "raise"} :
        \E outcomes \in [1..Len(ValidatorChecks(script)) -> CheckOutcomes] :
            vm = [pc |-> "load", script |-> script, load |-> load, outcomes |-> outcomes,
                  ran |-> <<>>, results |-> <<>>, errors |-> 0, exit |-> -1]

\* try: load_alpha_from_file(args.code) / except: sys.exit(1); results = []
VmLoad ==
    /\ vm.pc = "load"
    /\ vm' = IF vm.load = "raise"
             THEN [vm EXCEPT !.pc = "exited", !.exit = 1]
             ELSE [vm EXCEPT !.pc = "check"]
    /\ UNCHANGED <<pi, td, ws, pb, ab, fx, fm, cli, ti, cb>>

\* The next check, in its try/except.
VmRunCheck ==
    /\ vm.pc = "check"
    /\ Len(vm.ran) < Len(ValidatorChecks(vm.script))
    /\ LET i == Len(vm.ran) + 1
       IN vm' = [vm EXCEPT !.ran = Append(@, ValidatorChecks(vm.script)[i]),
                           !.results = Append(@, RecordedResult(vm.outcomes[i])),
                           !.errors = @ + (IF vm.outcomes[i] = "raise" THEN 1 ELSE 0)]
    /\ UNCHANGED <<pi, td, ws, pb, ab, fx, fm, cli, ti, cb>>

\* Summary and sys.exit
VmSummary ==
    /\ vm.pc = "check"
    /\ Len(vm.ran) = Len(ValidatorChecks(vm.script))
    /\ vm' = [vm EXCEPT !.pc = "exited", !.exit = ExitStatus(vm.results)]
    /\ UNCHANGED <<pi, td, ws, pb, ab, fx, fm, cli, ti, cb>>

InitValidator ==
    /\ VmInit
    /\ pi = Idle /\ td = Idle /\ ws = Idle /\ pb = Idle /\ ab = Idle /\ fx = Idle
    /\ fm = Idle /\ cli = Idle /\ ti = Idle /\ cb = Idle

NextValidator == VmLoad \/ VmRunCheck \/ VmSummary

SpecValidator == InitValidator /\ [][NextValidator]_vars

(***************************************************************************)
(* C5: once the strategy class has loaded, the validator main runs every   *)
(* check whatever the earlier ones did, records a check that raises as     *)
(* failed, and exits 0 exactly when every check returned passed=True and 1 *)
(* otherwise; if loading fails it exits 1 without running any check.       *)
(***************************************************************************)
C5_ValidatorMain ==
    vm.pc = "exited" =>
        IF vm.load = "raise"
        THEN vm.exit = 1 /\ vm.ran = <<>> /\ vm.results = <<>>
        ELSE /\ vm.ran = ValidatorChecks(vm.script)
             /\ Len(vm.ran) = (IF vm.script = "alpha_validator" THEN 2 ELSE 3)
             /\ \A i \in 1..Len(vm.ran) :
                   vm.outcomes[i] = "raise" => vm.results[i] = FALSE
             /\ vm.exit = 0 <=> (\A i \in 1..Len(vm.ran) : vm.outcomes[i] = "pass")
             /\ vm.exit # 0 => vm.exit = 1

\* The portfolio validator ends with status 1 after its first check raised and
\* the two later ones ran and passed.
C5_Witness ==
    /\ vm.pc = "exited"
    /\ vm.script = "portfolio_validator"
    /\ vm.load = "ok"
    /\ vm.outcomes = <<"raise", "pass", "pass">>
    /\ vm.results = <<FALSE, TRUE, TRUE>>
    /\ vm.exit = 1

(***************************************************************************)
(* The fix decision (finalize_fix.determine_fix_decision)                  *)
(*                                                                         *)
(* A Sharpe ratio is None, NaN or a number in units of 0.001: the          *)
(* near-zero guard 0.01 is NearZero = 10, the threshold 0.3 is             *)
(* BrokenOriginalMin = 300; a relative change r >= -0.10 is                *)
(* 10 * (fixed - original) >= -|original|.                                 *)
(***************************************************************************)
MaxSharpe == 25

NearZero == 10

BrokenOriginalMin == 300

RelDropDen == 10

None == [tag |-> "none"]

NanSharpe == [tag |-> "nan"]

Sharpe(v) == [tag |-> "num", v |-> v]

IsNum(x) == x.tag = "num"

SharpeValues ==
    {None, NanSharpe} \cup
    {Sharpe(v) : v \in (-MaxSharpe..MaxSharpe) \cup
                       {-1000, -900, -1100, 300, 301, 900, 1000, 1100}}

\* Mutant: the validation outcome is ignored.
ValidationFailedIgnored(validation_passed) == FALSE

\* if not validation_passed
ValidationFailed(validation_passed) == ~validation_passed

\* Mutant: the change is taken relative to the signed original.
RelativeChangeAtLeastSigned(original, fixed) ==
    /\ IsNum(original) /\ IsNum(fixed)
    /\ IF original.v > 0
       THEN RelDropDen * (fixed.v - original.v) >= -original.v
       ELSE RelDropDen * (fixed.v - original.v) <= -original.v

\* Mutant: the comparison with -0.10 is strict.
RelativeChangeAtLeastStrict(original, fixed) ==
    /\ IsNum(original) /\ IsNum(fixed)
    /\ RelDropDen * (fixed.v - original.v) > -Abs(original.v)

\* relative_change = (fixed_sharpe - original_sharpe) / abs(original_sharpe)
\* relative_change >= -0.10   (False when either is NaN)
RelativeChangeAtLeast(original, fixed) ==
    /\ IsNum(original) /\ IsNum(fixed)
    /\ RelDropDen * (fixed.v - original.v) >= -Abs(original.v)

determine_fix_decision(original_sharpe, fixed_sharpe, validation_passed) ==
    IF ValidationFailed(validation_passed)
    THEN [decision |-> "human_review", reason |-> "Validation failed"]
    ELSE IF fixed_sharpe = None
    THEN [decision |-> "human_review", reason |-> "Fixed Sharpe unavailable"]
    ELSE IF original_sharpe = None
    THEN IF IsNum(fixed_sharpe) /\ fixed_sharpe.v > BrokenOriginalMin
         THEN [decision |-> "resubmit", reason |-> "Original broken, fixed works"]
         ELSE [decision |-> "human_review", reason |-> "Cannot compare"]
    ELSE IF IsNum(original_sharpe) /\ Abs(original_sharpe.v) < NearZero
    THEN IF IsNum(fixed_sharpe) /\ fixed_sharpe.v >= 0
         THEN [decision |-> "resubmit", reason |-> "Original near-zero, fixed is non-negative"]
         ELSE [decision |-> "human_review", reason |-> "Original near-zero, fixed is negative"]
    ELSE IF RelativeChangeAtLeast(original_sharpe, fixed_sharpe)
    THEN [decision |-> "resubmit", reason |-> "Performance similar or improved"]
    ELSE [decision |-> "reject", reason |-> "Performance degraded"]

FxInit ==
    \E original \in SharpeValues, fixed \in SharpeValues, validation_passed \in BOOLEAN :
        fx = [pc |-> "start", original_sharpe |-> original, fixed_sharpe |-> fixed,
              validation_passed |-> validation_passed]

\* One call of determine_fix_decision.
DetermineFixDecision ==
    /\ fx.pc = "start"
    /\ fx' = [fx EXCEPT !.pc = "done"] @@
             [res |-> determine_fix_decision(fx.original_sharpe, fx.fixed_sharpe,
                                             fx.validation_passed)]
    /\ UNCHANGED <<pi, td, ws, vm, pb, ab, fm, cli, ti, cb>>

InitFix ==
    /\ FxInit
    /\ pi = Idle /\ td = Idle /\ ws = Idle /\ vm = Idle /\ pb = Idle /\ ab = Idle
    /\ fm = Idle /\ cli = Idle /\ ti = Idle /\ cb = Idle

NextFix == DetermineFixDecision

SpecFix == InitFix /\ [][NextFix]_vars

(***************************************************************************)
(* C8: determine_fix_decision returns HUMAN_REVIEW whenever                *)
(* validation_passed is false, whatever the two Sharpe ratios are.         *)
(***************************************************************************)
C8_FailedValidationIsHumanReview ==
    (fx.pc = "done" /\ ~fx.validation_passed) => fx.res.decision = "human_review"

\* A fix that failed validation although its Sharpe ratio improved a lot.
C8_Witness ==
    /\ fx.pc = "done"
    /\ ~fx.validation_passed
    /\ fx.original_sharpe = Sharpe(900)
    /\ fx.fixed_sharpe = Sharpe(1100)
    /\ fx.res.decision = "human_review"

BothAvailable == IsNum(fx.original_sharpe) /\ IsNum(fx.fixed_sharpe)

\* (fixed - original) / |original| < -0.10, for a non-zero original
DropsMoreThanTenPercent ==
    10 * (fx.fixed_sharpe.v - fx.original_sharpe.v) < -Abs(fx.original_sharpe.v)

MaxPosRows == 2

AumLimit == 100001000

RunnerCells == {NaN, Num(-1), Num(0), Num(1001), Num(AumLimit - 1000)}

\* What get() returns to a runner: up to MaxPosRows rows of two cells, or one
\* row of a table that has no column.
RunnerTables == SeqsUpTo([1..2 -> RunnerCells], MaxPosRows) \cup {<<<<>>>>}

\* positions.empty: no row or no column
IsEmptyFrame(positions) == Len(positions) = 0 \/ Len(positions[1]) = 0

CountNaN(positions) ==
    SumSeq([i \in 1..Len(positions) |->
               Len(SelectSeq(positions[i], LAMBDA c : IsNaN(c)))])

HasNegative(positions) ==
    \E i \in 1..Len(positions) : \E j \in 1..Len(positions[i]) :
        ~IsNaN(positions[i][j]) /\ positions[i][j][1] < 0

\* max_sum > 1e8 + 1000
RowSumsExceedAum(row_sums) == SetMax(SeqToSet(row_sums)) > AumLimit

validate_positions(positions) ==
    IF IsEmptyFrame(positions)
    THEN [errors |-> <<"Position DataFrame is empty">>, warnings |-> <<>>]
    ELSE LET row_sums == RowSums(positions)
         IN [errors |-> IF RowSumsExceedAum(row_sums)
                        THEN <<"Row sums exceed 1e8 (total AUM)">> ELSE <<>>,
             warnings |->
                 (IF CountNaN(positions) > 0 THEN <<"Contains NaN values">> ELSE <<>>)
                 \o (IF \E i \in 1..Len(row_sums) : row_sums[i] = 0
                     THEN <<"days with zero positions">> ELSE <<>>)
                 \o (IF HasNegative(positions)
                     THEN <<"Contains negative positions">> ELSE <<>>)]

(***************************************************************************)
(* The alpha backtest runner (finter-alpha backtest_runner.run_backtest)   *)
(*                                                                         *)
(* positions is what AlphaClass().get returns when it returns; load, get   *)
(* and simulate record whether the call returned ("ok") or raised.         *)
(***************************************************************************)
AlphaFiles == {"backtest_summary", "backtest_stats", "positions"}

AbInit ==
    \E positions \in RunnerTables :
        ab = [pc |-> "load", positions |-> positions, stages |-> <<>>,
              load |-> "none", get |-> "none", simulate |-> "none",
              errors |-> <<>>, warnings |-> <<>>,
              files |-> {}, returned |-> "none", exit |-> -1]

\* try: load_alpha_from_file / except: return False
AbLoad ==
    /\ ab.pc = "load"
    /\ \E o \in {"ok", "raise"} :
          ab' = [ab EXCEPT !.stages = Append(@, "load"), !.load = o,
                           !.pc = IF o = "ok" THEN "generate" ELSE "returned",
                           !.returned = IF o = "ok" THEN @ ELSE "False"]
    /\ UNCHANGED <<pi, td, ws, vm, pb, fx, fm, cli, ti, cb>>

\* try: alpha.get(start_date, end_date); print(positions.index[0] ...) / except:
\* return False.  positions.index[0] raises IndexError on a table of no rows.
AbGenerate ==
    /\ ab.pc = "generate"
    /\ \E o \in {"ok", "raise"} :
          LET failed == o = "raise" \/ Len(ab.positions) = 0
          IN ab' = [ab EXCEPT !.stages = Append(@, "generate"),
                              !.get = IF failed THEN "raise" ELSE "ok",
                              !.pc = IF failed THEN "returned" ELSE "validate",
                              !.returned = IF failed THEN "False" ELSE @]
    /\ UNCHANGED <<pi, td, ws, vm, pb, fx, fm, cli, ti, cb>>

\* validation = validate_positions(positions); errors: return False; warnings
\* are printed.
AbValidate ==
    /\ ab.pc = "validate"
    /\ LET validation == validate_positions(ab.positions)
       IN ab' = [ab EXCEPT !.stages = Append(@, "validate"),
                           !.errors = validation.errors,
                           !.warnings = validation.warnings,
                           !.pc = IF validation.errors # <<>> THEN "returned" ELSE "simulate",
                           !.returned = IF validation.errors # <<>> THEN "False" ELSE @]
    /\ UNCHANGED <<pi, td, ws, vm, pb, fx, fm, cli, ti, cb>>

\* try: Simulator(market_type=universe).run(position=positions) / except:
\* return False
AbSimulate ==
    /\ ab.pc = "simulate"
    /\ \E o \in {"ok", "raise"} :
          ab' = [ab EXCEPT !.stages = Append(@, "simulate"), !.simulate = o,
                           !.pc = IF o = "ok" THEN "save" ELSE "returned",
                           !.returned = IF o = "ok" THEN @ ELSE "False"]
    /\ UNCHANGED <<pi, td, ws, vm, pb, fx, fm, cli, ti, cb>>

\* The three to_csv calls; return True
AbSave ==
    /\ ab.pc = "save"
    /\ ab' = [ab EXCEPT !.stages = Append(@, "save"), !.files = AlphaFiles,
                        !.pc = "returned", !.returned = "True"]
    /\ UNCHANGED <<pi, td, ws, vm, pb, fx, fm, cli, ti, cb>>

\* Mutant: the status does not depend on the result.
RunnerExitStatusAlwaysZero(success) == 0

\* sys.exit(0 if success else 1)
RunnerExitStatus(success) == IF success = "True" THEN 0 ELSE 1

AbExit ==
    /\ ab.pc = "returned"
    /\ ab' = [ab EXCEPT !.pc = "exited", !.exit = RunnerExitStatus(ab.returned)]
    /\ UNCHANGED <<pi, td, ws, vm, pb, fx, fm, cli, ti, cb>>

InitAlphaRunner ==
    /\ AbInit
    /\ pi = Idle /\ td = Idle /\ ws = Idle /\ vm = Idle /\ pb = Idle /\ fx = Idle
    /\ fm = Idle /\ cli = Idle /\ ti = Idle /\ cb = Idle

NextAlphaRunner == AbLoad \/ AbGenerate \/ AbValidate \/ AbSimulate \/ AbSave \/ AbExit

SpecAlphaRunner == InitAlphaRunner /\ [][NextAlphaRunner]_vars

StageOrder == <<"load", "generate", "validate", "simulate", "save">>

\* The four earlier stages all ran and succeeded.
FourStagesSucceeded ==
    /\ ab.load = "ok"
    /\ ab.get = "ok"
    /\ Len(ab.stages) >= 3 /\ ab.errors = <<>>
    /\ ab.simulate = "ok"

\* The last stage that ran failed.
LastStageFailed ==
    /\ ab.stages # <<>>
    /\ LET last == ab.stages[Len(ab.stages)]
       IN \/ last = "load" /\ ab.load = "raise"
          \/ last = "generate" /\ ab.get = "raise"
          \/ last = "validate" /\ ab.errors # <<>>
          \/ last = "simulate" /\ ab.simulate = "raise"

PortfolioFiles == {"backtest_summary", "backtest_stats"}

PbInit ==
    \E positions \in RunnerTables, generate_chart \in BOOLEAN :
        pb = [pc |-> "load", positions |-> positions, generate_chart |-> generate_chart,
              stages |-> <<>>, pv |-> "none", checks |-> <<>>,
              files |-> {}, returned |-> "none", exit |-> -1]

\* try: load_portfolio_from_file / except: return False
PbLoad ==
    /\ pb.pc = "load"
    /\ \E o \in {"ok", "raise"} :
          pb' = [pb EXCEPT !.stages = Append(@, "load"),
                           !.pc = IF o = "ok" THEN "generate" ELSE "returned",
                           !.returned = IF o = "ok" THEN @ ELSE "False"]
    /\ UNCHANGED <<pi, td, ws, vm, ab, fx, fm, cli, ti, cb>>

\* try: portfolio.get(start_date, end_date); positions.index[0] / except: return False
PbGenerate ==
    /\ pb.pc = "generate"
    /\ \E o \in {"ok", "raise"} :
          LET failed == o = "raise" \/ Len(pb.positions) = 0
          IN pb' = [pb EXCEPT !.stages = Append(@, "generate"),
                              !.pc = IF failed THEN "returned" ELSE "validate",
                              !.returned = IF failed THEN "False" ELSE @]
    /\ UNCHANGED <<pi, td, ws, vm, ab, fx, fm, cli, ti, cb>>

\* validate_positions: errors: return False
PbValidate ==
    /\ pb.pc = "validate"
    /\ LET validation == validate_positions(pb.positions)
       IN pb' = [pb EXCEPT !.stages = Append(@, "validate"),
                           !.pc = IF validation.errors # <<>> THEN "returned"
                                  ELSE "pv_import",
                           !.returned = IF validation.errors # <<>> THEN "False" ELSE @]
    /\ UNCHANGED <<pi, td, ws, vm, ab, fx, fm, cli, ti, cb>>

\* from portfolio_validator import ...; load_portfolio_validator(portfolio_file).
\* except ImportError: skip the validation; except Exception: continue with
\* the backtest.
PbValidationImport ==
    /\ pb.pc = "pv_import"
    /\ \E o \in {"ok", "ImportError", "raise"} :
          pb' = [pb EXCEPT !.stages = Append(@, "portfolio_validation"),
                           !.pv = CASE o = "ok" -> "running"
                                    [] o = "ImportError" -> "skipped"
                                    [] o = "raise" -> "error",
                           !.pc = IF o = "ok" THEN "pv_check" ELSE "simulate"]
    /\ UNCHANGED <<pi, td, ws, vm, ab, fx, fm, cli, ti, cb>>

\* The next of check_path_independence, check_trading_days, check_weight_sum:
\* an exception leaves the block (except Exception: continue with the backtest).
PbValidationCheck ==
    /\ pb.pc = "pv_check"
    /\ Len(pb.checks) < 3
    /\ \E o \in CheckOutcomes :
          pb' = IF o = "raise"
                THEN [pb EXCEPT !.pv = "error", !.pc = "simulate"]
                ELSE [pb EXCEPT !.checks = Append(@, o = "pass")]
    /\ UNCHANGED <<pi, td, ws, vm, ab, fx, fm, cli, ti, cb>>

\* if not (passed1 and passed2 and passed3): return False
PbValidationVerdict ==
    /\ pb.pc = "pv_check"
    /\ Len(pb.checks) = 3
    /\ pb' = IF \A i \in 1..3 : pb.checks[i]
             THEN [pb EXCEPT !.pv = "passed", !.pc = "simulate"]
             ELSE [pb EXCEPT !.pv = "failed", !.pc = "returned", !.returned = "False"]
    /\ UNCHANGED <<pi, td, ws, vm, ab, fx, fm, cli, ti, cb>>

\* try: Simulator(...).run(position=positions) / except: return False
PbSimulate ==
    /\ pb.pc = "simulate"
    /\ \E o \in {"ok", "raise"} :
          pb' = [pb EXCEPT !.stages = Append(@, "simulate"),
                           !.pc = IF o = "ok" THEN "save" ELSE "returned",
                           !.returned = IF o = "ok" THEN @ ELSE "False"]
    /\ UNCHANGED <<pi, td, ws, vm, ab, fx, fm, cli, ti, cb>>

\* backtest_summary.csv and backtest_stats.csv; then the chart or return True
PbSave ==
    /\ pb.pc = "save"
    /\ pb' = [pb EXCEPT !.stages = Append(@, "save"), !.files = PortfolioFiles,
                        !.pc = IF pb.generate_chart THEN "chart" ELSE "returned",
                        !.returned = IF pb.generate_chart THEN @ ELSE "True"]
    /\ UNCHANGED <<pi, td, ws, vm, ab, fx, fm, cli, ti, cb>>

\* try: chart_generator ... / except ImportError, Exception: a warning; return True
PbChart ==
    /\ pb.pc = "chart"
    /\ \E o \in {"ok", "ImportError", "raise"} :
          pb' = [pb EXCEPT !.stages = Append(@, "chart"),
                           !.files = IF o = "ok" THEN @ \cup {"chart"} ELSE @,
                           !.pc = "returned", !.returned = "True"]
    /\ UNCHANGED <<pi, td, ws, vm, ab, fx, fm, cli, ti, cb>>

\* sys.exit(0 if success else 1)
PbExit ==
    /\ pb.pc = "returned"
    /\ pb' = [pb EXCEPT !.pc = "exited", !.exit = RunnerExitStatus(pb.returned)]
    /\ UNCHANGED <<pi, td, ws, vm, ab, fx, fm, cli, ti, cb>>

InitPortfolioRunner ==
    /\ PbInit
    /\ pi = Idle /\ td = Idle /\ ws = Idle /\ vm = Idle /\ ab = Idle /\ fx = Idle
    /\ fm = Idle /\ cli = Idle /\ ti = Idle /\ cb = Idle

NextPortfolioRunner ==
    \/ PbLoad \/ PbGenerate \/ PbValidate
    \/ PbValidationImport \/ PbValidationCheck \/ PbValidationVerdict
    \/ PbSimulate \/ PbSave \/ PbChart \/ PbExit

SpecPortfolioRunner == InitPortfolioRunner /\ [][NextPortfolioRunner]_vars

(***************************************************************************)
(* C6: in the portfolio backtest runner output files are only generated if *)
(* validation passes: backtest_summary.csv and backtest_stats.csv are      *)
(* written only in runs where the path-independence, trading-days and      *)
(* weight-sum checks all returned passed=True.  The code goes on to the    *)
(* backtest when the validation block raises or cannot be imported.        *)
(***************************************************************************)
C6_FilesOnlyIfValidationPassed ==
    (pb.pc # "idle" /\ pb.files # {}) => pb.checks = <<TRUE, TRUE, TRUE>>

(***************************************************************************)
(* finalize_fix main                                                       *)
(*                                                                         *)
(* fixed_file is the state of the file given as --fixed: "missing" (it     *)
(* cannot be opened), "syntax_error", "wrong_class_name" (a BaseAlpha      *)
(* subclass that is not named Alpha), "no_alpha_class" (it parses and has  *)
(* no class Alpha) or "ok".  An exception nothing catches ends the process *)
(* with a traceback and status 1.                                          *)
(***************************************************************************)
FixedFileStates == {"missing", "syntax_error", "wrong_class_name", "no_alpha_class", "ok"}

FmSharpes == {None, NanSharpe, Sharpe(-20), Sharpe(0), Sharpe(17), Sharpe(20), Sharpe(1000)}

\* check_class_name: open() raises on a file that cannot be read; a syntax
\* error and a misnamed BaseAlpha subclass return False.
check_class_name(fixed_file) ==
    CASE fixed_file = "missing" -> "raise"
      [] fixed_file = "syntax_error" -> "False"
      [] fixed_file = "wrong_class_name" -> "False"
      [] OTHER -> "True"

\* if decision == RESUBMIT: return 0 / REJECT: return 1 / else: return 2
FixExitStatus(decision) ==
    CASE decision = "resubmit" -> 0
      [] decision = "reject" -> 1
      [] OTHER -> 2

FmInit ==
    \E fixed_file \in FixedFileStates :
        fm = [pc |-> "class_name", fixed_file |-> fixed_file, validation_passed |-> TRUE,
              fixed_sharpe |-> None, original_sharpe |-> None,
              decision |-> "none", report |-> "none", chart |-> FALSE, exit |-> -1]

\* passed, msg = check_class_name(fixed_path), called outside any try
FmCheckClassName ==
    /\ fm.pc = "class_name"
    /\ LET r == check_class_name(fm.fixed_file)
       IN fm' = IF r = "raise"
                THEN [fm EXCEPT !.pc = "exited", !.exit = 1]
                ELSE [fm EXCEPT !.pc = "positions", !.validation_passed = (r = "True")]
    /\ UNCHANGED <<pi, td, ws, vm, pb, ab, fx, cli, ti, cb>>

\* if validation_passed: try: load_alpha_class, alpha.get, validate_positions,
\* check_path_independence / except: validation_passed = False
FmValidatePositions ==
    /\ fm.pc = "positions"
    /\ \E o \in {"load_raise", "get_raise", "errors", "path_dependent", "ok"} :
          /\ fm.fixed_file = "no_alpha_class" => o = "load_raise"
          /\ fm.fixed_file = "ok" => o # "load_raise"
          /\ fm' = IF fm.validation_passed
                   THEN [fm EXCEPT !.pc = "backtests", !.validation_passed = (o = "ok")]
                   ELSE [fm EXCEPT !.pc = "backtests"]
    /\ UNCHANGED <<pi, td, ws, vm, pb, ab, fx, cli, ti, cb>>

\* run_backtest(fixed_path, ...), run_backtest(original_path, ...): a Sharpe
\* ratio, or None when anything in it raised or the positions have errors.
FmBacktests ==
    /\ fm.pc = "backtests"
    /\ \E f \in FmSharpes, o \in FmSharpes :
          /\ fm.fixed_file # "ok" => f = None
          /\ fm' = [fm EXCEPT !.pc = "decision", !.fixed_sharpe = f, !.original_sharpe = o]
    /\ UNCHANGED <<pi, td, ws, vm, pb, ab, fx, cli, ti, cb>>

\* decision, reason = determine_fix_decision(...)
FmDecide ==
    /\ fm.pc = "decision"
    /\ fm' = [fm EXCEPT !.pc = "report",
                        !.decision = determine_fix_decision(fm.original_sharpe,
                                         fm.fixed_sharpe, fm.validation_passed).decision]
    /\ UNCHANGED <<pi, td, ws, vm, pb, ab, fx, cli, ti, cb>>

\* json.dump(asdict(report), f); the chart when the fixed backtest ran
FmSaveReport ==
    /\ fm.pc = "report"
    /\ \E chart_ok \in BOOLEAN :
          fm' = [fm EXCEPT !.pc = "summary", !.report = fm.decision,
                           !.chart = chart_ok /\ fm.fixed_sharpe # None]
    /\ UNCHANGED <<pi, td, ws, vm, pb, ab, fx, cli, ti, cb>>

\* sys.exit(main())
FmExit ==
    /\ fm.pc = "summary"
    /\ fm' = [fm EXCEPT !.pc = "exited", !.exit = FixExitStatus(fm.decision)]
    /\ UNCHANGED <<pi, td, ws, vm, pb, ab, fx, cli, ti, cb>>

InitFinalizeFix ==
    /\ FmInit
    /\ pi = Idle /\ td = Idle /\ ws = Idle /\ vm = Idle /\ pb = Idle /\ ab = Idle
    /\ fx = Idle /\ cli = Idle /\ ti = Idle /\ cb = Idle

NextFinalizeFix ==
    \/ FmCheckClassName \/ FmValidatePositions \/ FmBacktests
    \/ FmDecide \/ FmSaveReport \/ FmExit

SpecFinalizeFix == InitFinalizeFix /\ [][NextFinalizeFix]_vars

(***************************************************************************)
(* C11: the exit status of finalize_fix identifies the decision: the       *)
(* process ends with status 0 exactly when the decision is RESUBMIT, 1     *)
(* exactly when it is REJECT and 2 exactly when it is HUMAN_REVIEW, and in *)
(* each of these runs fix_report.json holds that decision.  A --fixed file *)
(* that cannot be opened ends the run with status 1 and no decision.       *)
(***************************************************************************)
C11_ExitStatusIdentifiesDecision ==
    fm.pc = "exited" =>
        /\ fm.exit = 0 <=> fm.decision = "resubmit"
        /\ fm.exit = 1 <=> fm.decision = "reject"
        /\ fm.exit = 2 <=> fm.decision = "human_review"
        /\ fm.exit \in {0, 1, 2} => fm.report = fm.decision


(***************************************************************************)
(* Portfolio-agent scripts: cost_analysis, analyze_turnover_reduction and  *)
(* finalize_portfolio.                                                     *)
(*                                                                         *)
(* cli.ended says how the process ended: "returned" (main ran to its end,  *)
(* status 0), "sys_exit" (main printed a message and called sys.exit) or   *)
(* "uncaught" (an exception left main: traceback, status 1).  cli.raised   *)
(* is the set of the kinds of operation that raised during the run,        *)
(* cli.message whether the script itself printed a message about it.       *)
(***************************************************************************)
MaxAlphas == 2

AlphaNames == 1..MaxAlphas

Running(script, args) ==
    [pc |-> "start", script |-> script, args |-> args, raised |-> {},
     message |-> FALSE, ended |-> "running", exit |-> -1]

\* an exception nothing catches: traceback, status 1
Uncaught(c, kind) ==
    [c EXCEPT !.pc = "exited", !.raised = @ \cup {kind}, !.ended = "uncaught", !.exit = 1]

\* print(...) then sys.exit(status)
SysExit(c, status) ==
    [c EXCEPT !.pc = "exited", !.message = TRUE, !.ended = "sys_exit", !.exit = status]

\* main returns: the interpreter ends with status 0
Returned(c) ==
    [c EXCEPT !.pc = "exited", !.ended = "returned", !.exit = 0]

AnalysisArgs == {"portfolio", "alpha_list", "neither"}

FinalizeArgs ==
    [evaluations : BOOLEAN, submit : BOOLEAN, generate_code : BOOLEAN, n_selected : 0..1]

CliInit ==
    \/ \E script \in {"cost_analysis", "analyze_turnover_reduction"}, a \in AnalysisArgs :
          cli = Running(script, a)
    \/ \E a \in FinalizeArgs : cli = Running("finalize_portfolio", a)

\* cost_analysis main: load_portfolio_class(args.portfolio) / --alpha-list /
\* else print ERROR and sys.exit(1); nothing catches what the load raises
CaLoad ==
    /\ cli.pc = "start" /\ cli.script = "cost_analysis"
    /\ \E raises \in BOOLEAN :
          cli' = CASE cli.args = "neither" -> SysExit(cli, 1)
                   [] cli.args = "portfolio" /\ raises -> Uncaught(cli, "load")
                   [] OTHER -> [cli EXCEPT !.pc = "alpha_pnl"]
    /\ UNCHANGED <<pi, td, ws, vm, pb, ab, fx, fm, ti, cb>>

\* portfolio.alpha_pnl_df(...), get_naive_ew_nav(...)
CaAlphaPnl ==
    /\ cli.pc = "alpha_pnl"
    /\ \E raises \in BOOLEAN :
          cli' = IF raises THEN Uncaught(cli, "platform") ELSE [cli EXCEPT !.pc = "backtest"]
    /\ UNCHANGED <<pi, td, ws, vm, pb, ab, fx, fm, ti, cb>>

\* get_finter_backtest_nav(...): Simulator.run on portfolio.get
CaBacktest ==
    /\ cli.pc = "backtest"
    /\ \E raises \in BOOLEAN :
          cli' = IF raises THEN Uncaught(cli, "platform") ELSE [cli EXCEPT !.pc = "ca_plot"]
    /\ UNCHANGED <<pi, td, ws, vm, pb, ab, fx, fm, ti, cb>>

\* plot_cost_comparison and the interpretation text
CaFinish ==
    /\ cli.pc = "ca_plot"
    /\ cli' = Returned(cli)
    /\ UNCHANGED <<pi, td, ws, vm, pb, ab, fx, fm, ti, cb>>

\* analyze_turnover_reduction main: exec_module of args.portfolio
AtLoad ==
    /\ cli.pc = "start" /\ cli.script = "analyze_turnover_reduction"
    /\ \E raises \in BOOLEAN :
          cli' = CASE cli.args = "neither" -> SysExit(cli, 1)
                   [] cli.args = "portfolio" /\ raises -> Uncaught(cli, "load")
                   [] OTHER -> [cli EXCEPT !.pc = "individual"]
    /\ UNCHANGED <<pi, td, ws, vm, pb, ab, fx, fm, ti, cb>>

\* get_individual_turnovers: per alpha, except Exception prints a warning
\* and records a turnover of 0.0
AtIndividual ==
    /\ cli.pc = "individual"
    /\ \E failed \in SUBSET AlphaNames :
          cli' = IF failed # {}
                 THEN [cli EXCEPT !.pc = "combined", !.raised = @ \cup {"platform"},
                                  !.message = TRUE]
                 ELSE [cli EXCEPT !.pc = "combined"]
    /\ UNCHANGED <<pi, td, ws, vm, pb, ab, fx, fm, ti, cb>>

\* get_combined_turnover: no try around portfolio.get and Simulator.run
AtCombined ==
    /\ cli.pc = "combined"
    /\ \E raises \in BOOLEAN :
          cli' = IF raises THEN Uncaught(cli, "platform") ELSE [cli EXCEPT !.pc = "offsetting"]
    /\ UNCHANGED <<pi, td, ws, vm, pb, ab, fx, fm, ti, cb>>

\* analyze_position_offsetting: per alpha, except Exception: continue
AtOffsetting ==
    /\ cli.pc = "offsetting"
    /\ \E failed \in SUBSET AlphaNames :
          cli' = IF failed # {}
                 THEN [cli EXCEPT !.pc = "at_plot", !.raised = @ \cup {"platform"}]
                 ELSE [cli EXCEPT !.pc = "at_plot"]
    /\ UNCHANGED <<pi, td, ws, vm, pb, ab, fx, fm, ti, cb>>

\* summary, interpretation and plot_turnover_comparison
AtFinish ==
    /\ cli.pc = "at_plot"
    /\ cli' = Returned(cli)
    /\ UNCHANGED <<pi, td, ws, vm, pb, ab, fx, fm, ti, cb>>

\* submission shared by both modes of finalize_portfolio: load_portfolio_code
\* and submit_portfolio_to_finter catch their exceptions and print them
SubmitOutcome(c, code_loaded, submitted) ==
    CASE ~code_loaded -> SysExit([c EXCEPT !.raised = @ \cup {"read"}], 1)
      [] ~submitted -> SysExit([c EXCEPT !.raised = @ \cup {"platform"}], 1)
      [] OTHER -> [c EXCEPT !.pc = "submitted"]

\* finalize_portfolio main, submit-only mode (--submit without --evaluations)
FpSubmitOnly ==
    /\ cli.pc = "start" /\ cli.script = "finalize_portfolio"
    /\ cli.args.submit /\ ~cli.args.evaluations
    /\ \E state_loaded \in BOOLEAN, code_loaded \in BOOLEAN, submitted \in BOOLEAN :
          cli' = IF ~state_loaded
                 THEN SysExit([cli EXCEPT !.raised = @ \cup {"read"}], 1)
                 ELSE LET c == SubmitOutcome(cli, code_loaded, submitted)
                      IN IF c.pc = "submitted" THEN SysExit(c, 0) ELSE c
    /\ UNCHANGED <<pi, td, ws, vm, pb, ab, fx, fm, ti, cb>>

\* regular mode: --evaluations is required; load_evaluations opens and parses
\* the file with no try around it
FpReadEvaluations ==
    /\ cli.pc = "start" /\ cli.script = "finalize_portfolio"
    /\ ~(cli.args.submit /\ ~cli.args.evaluations)
    /\ \E raises \in BOOLEAN :
          cli' = CASE ~cli.args.evaluations -> SysExit(cli, 1)
                   [] raises -> Uncaught(cli, "read")
                   [] OTHER -> [cli EXCEPT !.pc = "validate"]
    /\ UNCHANGED <<pi, td, ws, vm, pb, ab, fx, fm, ti, cb>>

\* validate_evaluation on every entry; build_portfolio_state; the state and
\* the generated code are written
FpValidateAndSave ==
    /\ cli.pc = "validate"
    /\ \E all_errors \in BOOLEAN :
          cli' = IF all_errors THEN SysExit(cli, 1) ELSE [cli EXCEPT !.pc = "submit"]
    /\ UNCHANGED <<pi, td, ws, vm, pb, ab, fx, fm, ti, cb>>

\* if args.submit and n_selected > 0 / elif args.submit and n_selected == 0
FpSubmit ==
    /\ cli.pc = "submit"
    /\ \E code_loaded \in BOOLEAN, submitted \in BOOLEAN :
          cli' = CASE cli.args.submit /\ cli.args.n_selected > 0 ->
                          SubmitOutcome(cli, code_loaded, submitted)
                   [] cli.args.submit /\ cli.args.n_selected = 0 -> SysExit(cli, 1)
                   [] OTHER -> [cli EXCEPT !.pc = "submitted"]
    /\ UNCHANGED <<pi, td, ws, vm, pb, ab, fx, fm, ti, cb>>

\* the next-steps text; main returns
FpFinish ==
    /\ cli.pc = "submitted"
    /\ cli' = Returned(cli)
    /\ UNCHANGED <<pi, td, ws, vm, pb, ab, fx, fm, ti, cb>>

InitCli ==
    /\ CliInit
    /\ pi = Idle /\ td = Idle /\ ws = Idle /\ vm = Idle /\ pb = Idle /\ ab = Idle
    /\ fx = Idle /\ fm = Idle /\ ti = Idle /\ cb = Idle

NextCli ==
    \/ CaLoad \/ CaAlphaPnl \/ CaBacktest \/ CaFinish
    \/ AtLoad \/ AtIndividual \/ AtCombined \/ AtOffsetting \/ AtFinish
    \/ FpSubmitOnly \/ FpReadEvaluations \/ FpValidateAndSave \/ FpSubmit \/ FpFinish

SpecCli == InitCli /\ [][NextCli]_vars

(***************************************************************************)
(* C12: in every command-line script an exception raised while loading the *)
(* strategy file, reading an input file or calling the platform is caught  *)
(* at the top level of the script, reported by a printed message and ended *)
(* with a non-zero exit status; no script terminates through an uncaught   *)
(* exception.                                                              *)
(***************************************************************************)
C12_ExceptionsCaughtAtTopLevel ==
    cli.pc = "exited" =>
        /\ cli.ended # "uncaught"
        /\ cli.raised # {} => cli.message /\ cli.exit # 0


(***************************************************************************)
(* info_generator: to_snake_case and generate_model_title                  *)
(*                                                                         *)
(* A title is a sequence of code points.  A call returns                   *)
(* [raised |-> FALSE, value |-> text] or raises ValueError.                *)
(***************************************************************************)
MaxWordLen == 2
MaxRepeat == 18

\* 'a', 'Z', '7', '_', '-', ' ', '!', U+00E9
TitleChars == {97, 90, 55, 95, 45, 32, 33, 233}

Underscore == 95

ValueError == [raised |-> TRUE]

Returns(text) == [raised |-> FALSE, value |-> text]

isasciiAlways(text) == TRUE

\* text.isascii()
isascii(text) == \A i \in 1..Len(text) : text[i] < 128

\* the characters matched by [-\s]
IsHyphenOrSpace(c) == c = 45 \/ c \in 9..13 \/ c \in 28..32

\* the characters matched by [a-zA-Z0-9_]
IsWordChar(c) == c \in 97..122 \/ c \in 65..90 \/ c \in 48..57 \/ c = Underscore

RECURSIVE SubHyphenSpace(_)
\* re.sub(r"[-\s]+", "_", text): every maximal run becomes one underscore
SubHyphenSpace(text) ==
    IF text = <<>> THEN <<>>
    ELSE IF IsHyphenOrSpace(Head(text))
         THEN IF Len(text) > 1 /\ IsHyphenOrSpace(text[2])
              THEN SubHyphenSpace(Tail(text))
              ELSE <<Underscore>> \o SubHyphenSpace(Tail(text))
         ELSE <<Head(text)>> \o SubHyphenSpace(Tail(text))

\* re.sub(r"[^a-zA-Z0-9_]", "", text)
SubNonWord(text) == SelectSeq(text, IsWordChar)

\* text.lower() of an ASCII string
Lower(text) == [i \in 1..Len(text) |-> IF text[i] \in 65..90 THEN text[i] + 32 ELSE text[i]]

SnakeCase(text) ==
    IF ~isascii(text) THEN ValueError
    ELSE LET t == SubNonWord(SubHyphenSpace(text))
         IN IF t = <<>> THEN ValueError ELSE Returns(Lower(t))

\* finter-alpha/scripts/info_generator.py
alpha_to_snake_case(text) == SnakeCase(text)

\* finter-portfolio/scripts/info_generator.py
to_snake_case(text) == SnakeCase(text)

MAX_TITLE_LENGTH == 45
SUFFIX_LENGTH == 11
MAX_BASE_NAME_LENGTH == MAX_TITLE_LENGTH - SUFFIX_LENGTH

TruncateBaseNever(base_name) == base_name

\* if len(base_name) > MAX_BASE_NAME_LENGTH: base_name = base_name[:MAX_BASE_NAME_LENGTH]
TruncateBase(base_name) ==
    IF Len(base_name) > MAX_BASE_NAME_LENGTH
    THEN SubSeq(base_name, 1, MAX_BASE_NAME_LENGTH)
    ELSE base_name

\* two decimal digits, zero padded
Code2(n) == <<48 + ((n % 100) \div 10), 48 + (n % 10)>>

\* datetime.now().strftime("%y%m%d%H")
StrftimeYmdH(now) == Code2(now.year) \o Code2(now.month) \o Code2(now.day) \o Code2(now.hour)

\* sample of the clock readings datetime.now() can give
Clock == [year : {2000, 2026}, month : {1, 12}, day : {9}, hour : {0, 23}]

\* sample of string.ascii_lowercase
AsciiLowercase == {97, 122}

generate_model_title(base_title, now, random_suffix) ==
    LET s == to_snake_case(base_title)
    IN IF s.raised THEN ValueError
       ELSE Returns(TruncateBase(s.value) \o <<Underscore>> \o StrftimeYmdH(now) \o random_suffix)

RECURSIVE Repeat(_, _)
Repeat(word, k) == IF k = 0 THEN <<>> ELSE word \o Repeat(word, k - 1)

\* titles of up to MaxWordLen * MaxRepeat characters
Titles == {Repeat(w, k) : w \in SeqsUpTo(TitleChars, MaxWordLen), k \in 1..MaxRepeat}

TiInit ==
    \E script \in {"alpha", "portfolio"}, title \in Titles :
        ti = [pc |-> "start", script |-> script, title |-> title, res |-> ValueError]

\* alpha generate_info: "alpha_title": to_snake_case(title)
AlphaGenerateInfo ==
    /\ ti.pc = "start" /\ ti.script = "alpha"
    /\ ti' = [ti EXCEPT !.pc = "done", !.res = alpha_to_snake_case(ti.title)]
    /\ UNCHANGED <<pi, td, ws, vm, pb, ab, fx, fm, cli, cb>>

\* portfolio generate_info: "model_title": generate_model_title(title)
PortfolioGenerateInfo ==
    /\ ti.pc = "start" /\ ti.script = "portfolio"
    /\ \E now \in Clock, r1 \in AsciiLowercase, r2 \in AsciiLowercase :
          ti' = [ti EXCEPT !.pc = "done",
                           !.res = generate_model_title(ti.title, now, <<r1, r2>>)]
    /\ UNCHANGED <<pi, td, ws, vm, pb, ab, fx, fm, cli, cb>>

InitTitle ==
    /\ TiInit
    /\ pi = Idle /\ td = Idle /\ ws = Idle /\ vm = Idle /\ pb = Idle /\ ab = Idle
    /\ fx = Idle /\ fm = Idle /\ cli = Idle /\ cb = Idle

NextTitle == AlphaGenerateInfo \/ PortfolioGenerateInfo

SpecTitle == InitTitle /\ [][NextTitle]_vars

IsDigit(c) == c \in 48..57

IsLowerLetter(c) == c \in 97..122

(***************************************************************************)
(* C13: for every title to_snake_case accepts, generate_model_title        *)
(* returns a string of at most 45 characters of the form base, '_', eight  *)
(* decimal digits, two lowercase letters, where base is the snake_case     *)
(* title cut to at most 34 characters.                                     *)
(***************************************************************************)
C13_ModelTitleWithin45 ==
    (ti.pc = "done" /\ ti.script = "portfolio" /\ ~to_snake_case(ti.title).raised) =>
        /\ ~ti.res.raised
        /\ LET t == ti.res.value
               snake == to_snake_case(ti.title).value
               n == Len(t) - SUFFIX_LENGTH
           IN /\ Len(t) <= MAX_TITLE_LENGTH
              /\ n >= 1 /\ n <= 34
              /\ n = IF Len(snake) > 34 THEN 34 ELSE Len(snake)
              /\ \A i \in 1..n : t[i] = snake[i]
              /\ t[n + 1] = Underscore
              /\ \A i \in (n + 2)..(n + 9) : IsDigit(t[i])
              /\ \A i \in (n + 10)..(n + 11) : IsLowerLetter(t[i])

\* a title whose snake_case form is longer than 34 characters was cut
C13_Witness ==
    /\ ti.pc = "done" /\ ti.script = "portfolio" /\ ~ti.res.raised
    /\ Len(to_snake_case(ti.title).value) > 34
    /\ Len(ti.res.value) = 45

(***************************************************************************)
(* C14: to_snake_case (both copies) raises ValueError for every title that *)
(* holds a non-ASCII character; for every other title it either raises     *)
(* ValueError or returns a non-empty string of lowercase ASCII letters,    *)
(* digits and underscores only.                                            *)
(***************************************************************************)
C14_SnakeCaseAlphabet ==
    \A r \in {alpha_to_snake_case(ti.title), to_snake_case(ti.title)} :
        ti.pc = "done" =>
            /\ (\E i \in 1..Len(ti.title) : ti.title[i] > 127) => r.raised
            /\ ~r.raised =>
                  /\ r.value # <<>>
                  /\ \A i \in 1..Len(r.value) :
                        IsLowerLetter(r.value[i]) \/ IsDigit(r.value[i]) \/ r.value[i] = Underscore
            /\ ti.script = "alpha" => ti.res = r

\* an ASCII title with capitals, blanks and punctuation was converted
C14_Witness ==
    /\ ti.pc = "done" /\ ti.script = "alpha" /\ ~ti.res.raised
    /\ \E i \in 1..Len(ti.title) : ti.title[i] = 90
    /\ \E i \in 1..Len(ti.title) : ti.title[i] = 32
    /\ Len(ti.res.value) < Len(ti.title) + 1


(***************************************************************************)
(* crypto_bitcoin template: Alpha.get                                      *)
(*                                                                         *)
(* The 8H candles since 2018-01-01 are the periods 1..CbPeriods, three to  *)
(* a day; a close series is a sequence of positive prices, one per period. *)
(* A position table is a function from the periods of the requested days   *)
(* to cells.                                                               *)
(***************************************************************************)
CbPeriods == 5
MaxClose == 2
MaxMomentum == 2

CandlesPerDay == 3

FullLong == 100000000

DayOf(t) == ((t - 1) \div CandlesPerDay) + 1

CbDays == 1..DayOf(CbPeriods)

\* cf.get_df(...) of ContentFactory('raw', 20180101, end): the candles up to end
LoadClose(market, end) == SelectSeq([t \in 1..Len(market) |-> [t |-> t, close |-> market[t]]],
                                    LAMBDA row : DayOf(row.t) <= end)

\* btc_close.pct_change(periods=p): close[t] / close[t-p] - 1 as a fraction,
\* NaN for the first p rows
pct_change(btc_close, periods) ==
    [t \in 1..Len(btc_close) |->
        IF t <= periods THEN NaN
        ELSE Num([num |-> btc_close[t].close - btc_close[t - periods].close,
                  den |-> btc_close[t - periods].close])]

\* (momentum > 0).astype(float) * 1e8: a comparison with NaN is False
Positions(momentum) ==
    [t \in 1..Len(momentum) |->
        IF ~IsNaN(momentum[t]) /\ momentum[t][1].num * momentum[t][1].den > 0
        THEN Num(FullLong) ELSE Num(0)]

ShiftNone(positions) == positions

\* positions.shift(1): row t takes the value of row t-1, the first row is NaN
Shift(positions) ==
    [t \in 1..Len(positions) |-> IF t = 1 THEN NaN ELSE positions[t - 1]]

\* .loc[str(start): str(end)]: the candles of the days start..end
LocDays(btc_close, shifted, start, end) ==
    LET rows == {t \in 1..Len(btc_close) : DayOf(t) >= start /\ DayOf(t) <= end}
    IN [t \in rows |-> shifted[t]]

get(market, start, end, momentum_period) ==
    LET btc_close == LoadClose(market, end)
        momentum == pct_change(btc_close, momentum_period)
        positions == Positions(momentum)
    IN LocDays(btc_close, Shift(positions), start, end)

CloseSeries == [1..CbPeriods -> 1..MaxClose]

\* two markets that agree on every candle but candle k
CbInit ==
    \E market \in CloseSeries, k \in 1..CbPeriods, v \in 1..MaxClose,
       start \in CbDays, end \in CbDays, momentum_period \in 1..MaxMomentum :
        /\ start <= end
        /\ cb = [pc |-> "start", market |-> market, market2 |-> [market EXCEPT ![k] = v],
                 k |-> k, start |-> start, end |-> end,
                 momentum_period |-> momentum_period, pos |-> <<>>, pos2 |-> <<>>]

\* alpha.get(start, end, momentum_period) on each of the two markets
CbGet ==
    /\ cb.pc = "start"
    /\ cb' = [cb EXCEPT !.pc = "done",
                        !.pos = get(cb.market, cb.start, cb.end, cb.momentum_period),
                        !.pos2 = get(cb.market2, cb.start, cb.end, cb.momentum_period)]
    /\ UNCHANGED <<pi, td, ws, vm, pb, ab, fx, fm, cli, ti>>

InitCrypto ==
    /\ CbInit
    /\ pi = Idle /\ td = Idle /\ ws = Idle /\ vm = Idle /\ pb = Idle /\ ab = Idle
    /\ fx = Idle /\ fm = Idle /\ cli = Idle /\ ti = Idle

NextCrypto == CbGet

SpecCrypto == InitCrypto /\ [][NextCrypto]_vars

\* 1e8 if the close at t-1 is greater than the close at t-1-momentum_period, else 0
MomentumRule(market, t, p) ==
    IF t - 1 - p >= 1 /\ market[t - 1] > market[t - 1 - p] THEN Num(FullLong) ELSE Num(0)

\* the two runs return the same position at every period up to the first
\* candle on which their markets differ
NoLookAhead ==
    /\ DOMAIN cb.pos = DOMAIN cb.pos2
    /\ \A t \in DOMAIN cb.pos : t <= cb.k => cb.pos[t] = cb.pos2[t]

(***************************************************************************)
(* C15 as stated: the position at every returned period t is 1e8 if the    *)
(* close at t-1 is greater than the close at t-1-momentum_period and 0     *)
(* otherwise, and two close series that agree before t give the same       *)
(* position at t.  The first candle of the series has no predecessor: its  *)
(* position is NaN, not 0.                                                 *)
(***************************************************************************)
C15_MomentumRuleAtEveryPeriod ==
    cb.pc = "done" =>
        /\ \A t \in DOMAIN cb.pos : cb.pos[t] = MomentumRule(cb.market, t, cb.momentum_period)
        /\ NoLookAhead

(***************************************************************************)
(* C15 amended: the rule holds at every returned period but the first      *)
(* candle of the series, whose position is a missing value; positions      *)
(* never depend on the close of their own or a later period.               *)
(***************************************************************************)
C15_MomentumRuleAfterFirstPeriod ==
    cb.pc = "done" =>
        /\ \A t \in DOMAIN cb.pos :
              cb.pos[t] = IF t = 1 THEN NaN
                          ELSE MomentumRule(cb.market, t, cb.momentum_period)
        /\ \A t \in DOMAIN cb.pos2 :
              cb.pos2[t] = IF t = 1 THEN NaN
                           ELSE MomentumRule(cb.market2, t, cb.momentum_period)
        /\ NoLookAhead

\* the two markets differ on a returned candle k whose close, one period
\* later, would have changed the position
C15_Witness ==
    /\ cb.pc = "done"
    /\ cb.market[cb.k] # cb.market2[cb.k]
    /\ cb.k \in DOMAIN cb.pos /\ cb.k + 1 \in DOMAIN cb.pos
    /\ cb.pos[cb.k] = Num(FullLong)
    /\ cb.pos[cb.k + 1] # cb.pos2[cb.k + 1]


(***************************************************************************)
(* finalize_fix.check_path_independence beside the validator's             *)
(*                                                                         *)
(* Both call get(20200101, 20211231) and get(20210101, 20221231); the      *)
(* tables, dates and units are those of CHECK 1.                           *)
(***************************************************************************)
\* p.fillna(0)
FillNa0(c) == IF IsNaN(c) THEN 0 ELSE c[1]

\* finalize_fix.check_path_independence on the two tables alpha.get returned
fix_check_path_independence(pos1, pos2) ==
    LET fix_overlap_start == SetMax({SetMin(pos1.index), SetMin(pos2.index)})
        fix_overlap_end == SetMin({SetMax(pos1.index), SetMax(pos2.index)})
        p1 == LocSlice(pos1, fix_overlap_start, fix_overlap_end)
        p2 == LocSlice(pos2, fix_overlap_start, fix_overlap_end)
        common_idx == p1.index \cap p2.index
        common_cols == p1.columns \cap p2.columns
        diff == {Num(Abs(FillNa0(p1.val[k]) - FillNa0(p2.val[k]))) : k \in common_idx \X common_cols}
        max_diff == NanMax(diff)
    IN IF common_idx = {}
       THEN [passed |-> TRUE, msg |-> "No overlap to check"]
       ELSE IF ~IsNaN(max_diff) /\ max_diff[1] > PathTol
            THEN [passed |-> FALSE, msg |-> "max_diff"]
            ELSE [passed |-> TRUE, msg |-> "OK"]

\* the same strategy given to the validator and to finalize_fix
CheckPathIndependenceBoth ==
    /\ pi.pc = "start"
    /\ pi' = [pc |-> "compared", pos1 |-> pi.pos1, pos2 |-> pi.pos2,
              res |-> check_path_independence(pi.pos1, pi.pos2),
              fix_res |-> fix_check_path_independence(pi.pos1, pi.pos2)]
    /\ UNCHANGED <<td, ws, vm, pb, ab, fx, fm, cli, ti, cb>>

InitPathBoth ==
    /\ PiInit
    /\ td = Idle /\ ws = Idle /\ vm = Idle /\ pb = Idle /\ ab = Idle /\ fx = Idle
    /\ fm = Idle /\ cli = Idle /\ ti = Idle /\ cb = Idle

NextPathBoth == CheckPathIndependenceBoth

SpecPathBoth == InitPathBoth /\ [][NextPathBoth]_vars

(***************************************************************************)
(* C16: finalize_fix.check_path_independence and                           *)
(* alpha_validator.check_path_independence return the same verdict for     *)
(* every pair of tables, also when the tables share no date, when the      *)
(* largest difference is exactly 1e-6, when cells are missing and when the *)
(* tables differ only on the last common dates.                            *)
(***************************************************************************)
C16_SameVerdict ==
    pi.pc = "compared" => pi.res.passed = pi.fix_res.passed


(***************************************************************************)
(* All scripts: a run of any one of them.                                  *)
(***************************************************************************)
Init ==
    \/ InitPath
    \/ InitTradingDays
    \/ InitWeightSum
    \/ InitValidator
    \/ InitFix
    \/ InitAlphaRunner
    \/ InitPortfolioRunner
    \/ InitFinalizeFix
    \/ InitCli
    \/ InitTitle
    \/ InitCrypto
    \/ InitPathBoth

Next ==
    \/ NextPath
    \/ NextTradingDays
    \/ NextWeightSum
    \/ NextValidator
    \/ NextFix
    \/ NextAlphaRunner
    \/ NextPortfolioRunner
    \/ NextFinalizeFix
    \/ NextCli
    \/ NextTitle
    \/ NextCrypto
    \/ NextPathBoth

Spec == Init /\ [][Next]_vars

====
